---- MODULE Spec2Model ----
(***************************************************************************)
(* Client-side synchronisation engine of the collaborative canvas          *)
(* (canvas/src/lib/canvas-store.ts): the object store, the websocket       *)
(* session and the dispatch of local intents and relay frames.             *)
(***************************************************************************)
EXTENDS Integers, Sequences, FiniteSets, TLC

\* ------------------------------------------------------------------ bounds
\* Largest number of entries canvasState.objects is explored with.
MaxObjects == 2
\* Largest number of own actions whose rebroadcast is still in flight.
MaxEcho == 1
\* Largest number of half throttle windows the clock is advanced by.
MaxTicks == 3

\* --------------------------------------------------------------- constants
\* Duration (ms) of the non-immediate transition in moveObjectLocal.
TweenDuration == 100
\* Wait (ms) of the throttle around moveObject in the components.
ThrottleWait == 100

\* ------------------------------------------------------------- data model
Uuid == {"a", "b"}
Position == {[x |-> 0, y |-> 0], [x |-> 5, y |-> 5]}
TextObject == [type |-> "Text", text |-> "hi"]
ImageObject == [type |-> "Image", url |-> "u", width |-> 1, height |-> 1]
Object == {TextObject, ImageObject}

\* A Uuid names one object for good: the payload created under each id in the
\* runs explored.
ObjectFor(id) == IF id = "a" THEN TextObject ELSE ImageObject

\* JavaScript's undefined, inside the carrier of each field it can end up in.
UndefinedId == "undefined"
UndefinedPosition == [x |-> -1, y |-> -1]
UndefinedObject == [type |-> "undefined"]

\* svelte/motion tweened store: the value shown and the value it moves to.
tweened(value) == [value |-> value, target |-> value]

\* Tweened.set(new_value, {delay: 0, duration}).
TweenSet(t, new_value, duration) ==
    IF t.value = UndefinedPosition \/ duration = 0
    THEN [value |-> new_value, target |-> new_value]
    ELSE [value |-> t.value, target |-> new_value]

\* The transition of a tweened store running to its end.
TweenFinish(t) ==
    IF t.target = UndefinedPosition THEN t ELSE [t EXCEPT !.value = t.target]

\* ObjectServerAction values.
CreateObjectAction(id, object, initial_position) ==
    [type |-> "CreateObject", id |-> id, object |-> object,
     initial_position |-> initial_position]
MoveObjectAction(id, position) ==
    [type |-> "MoveObject", id |-> id, position |-> position]
RemoveObjectAction(id) == [type |-> "RemoveObject", id |-> id]
ClearObjectsAction == [type |-> "ClearObjects"]

ObjectServerAction ==
    {CreateObjectAction(id, ObjectFor(id), p) : id \in Uuid, p \in Position}
    \cup {MoveObjectAction(id, p) : id \in Uuid, p \in Position}
    \cup {RemoveObjectAction(id) : id \in Uuid}
    \cup {ClearObjectsAction}

\* DefinedObjectWithId values and the snapshots a relay sends: distinct ids.
DefinedObjectWithId ==
    {[id |-> id, object |-> [position |-> p, object |-> ObjectFor(id)]] :
        id \in Uuid, p \in Position}

Snapshots ==
    {<<>>} \cup {<<d>> : d \in DefinedObjectWithId}
    \cup {<<d, e>> : d \in {f \in DefinedObjectWithId : f.id = "a"},
                     e \in {f \in DefinedObjectWithId : f.id = "b"}}
    \cup {<<e, d>> : d \in {f \in DefinedObjectWithId : f.id = "a"},
                     e \in {f \in DefinedObjectWithId : f.id = "b"}}

\* ClientMessage values.
AuthenticateMessage(username, password) ==
    [type |-> "Authenticate", username |-> username, password |-> password]
ServerActionMessage(action) == [type |-> "ServerAction", action |-> action]
RequestObjectsMessage == [type |-> "RequestObjects"]

NoArg == [type |-> "none"]

\* ------------------------------------------------------------------ state
VARIABLES
    objects,      \* canvasState.objects
    socketStore,  \* "null" or "socket"
    readyState,   \* WebSocket.readyState of the one socket ("NONE": never built)
    pc,           \* "boot" | "idle" | "send": position of the running handler
    pending,      \* the action the running intent has still to send
    lastOp,       \* the handler that ran last, its argument, what it transmitted
    firstSent,    \* type of the first envelope transmitted on the connection
    attempts,     \* number of WebSocket constructions attempted
    echoQ,        \* own transmitted actions the relay has still to rebroadcast
    drag,         \* the PositionedObject component of one entry
    wire,         \* one message crossing JSON.stringify and JSON.parse
    relay         \* the relay at the far end of the connection

vars == <<objects, socketStore, readyState, pc, pending, lastOp, firstSent,
          attempts, echoQ, drag, wire, relay>>

\* What the store's own handlers never touch.
extVars == <<drag, wire, relay>>

\* lastOp.op of the exported intents, and of a rebroadcast of an own action
\* ("echoNext": handled right after the intent that sent it).
IntentOps ==
    {"createObject", "moveObject", "moveObjectImmediate", "removeObject",
     "clearObjects"}
EchoOps == {"echo", "echoNext"}

Op(op, arg, sent, error) ==
    [op |-> op, arg |-> arg, sent |-> sent, error |-> error]

idsOf(objs) == {objs[i].id : i \in 1..Len(objs)}
CountId(objs, id) == Cardinality({i \in 1..Len(objs) : objs[i].id = id})

\* JavaScript property reads: a field the value lacks reads as undefined.
IdOf(v) == IF "id" \in DOMAIN v THEN v.id ELSE UndefinedId
PositionOf(v) == IF "position" \in DOMAIN v THEN v.position ELSE UndefinedPosition
InitialPositionOf(v) ==
    IF "initial_position" \in DOMAIN v THEN v.initial_position
    ELSE UndefinedPosition
ObjectOf(v) == IF "object" \in DOMAIN v THEN v.object ELSE UndefinedObject

\* --------------------------------------------------------- object store
\* createObjectLocal building the tweened store at the origin.
createObjectLocalTweenAtOrigin(objs, id, object, initial_position) ==
    Append(objs, [id |-> id, object |-> object,
                  remotePosition |-> initial_position,
                  localPosition |-> tweened([x |-> 0, y |-> 0])])

createObjectLocal(objs, id, object, initial_position) ==
    Append(objs, [id |-> id, object |-> object,
                  remotePosition |-> initial_position,
                  localPosition |-> tweened(initial_position)])

\* moveObjectLocal without the test of the id: every entry is moved.
moveObjectLocalMovesAll(objs, data, immediate) ==
    [i \in 1..Len(objs) |->
        [objs[i] EXCEPT
            !.localPosition =
                TweenSet(@, PositionOf(data),
                         IF immediate THEN 0 ELSE TweenDuration),
            !.remotePosition = PositionOf(data)]]

\* moveObjectLocal without the write of remotePosition.
moveObjectLocalKeepsRemote(objs, data, immediate) ==
    [i \in 1..Len(objs) |->
        IF objs[i].id = IdOf(data)
        THEN [objs[i] EXCEPT
                !.localPosition =
                    TweenSet(@, PositionOf(data),
                             IF immediate THEN 0 ELSE TweenDuration)]
        ELSE objs[i]]

moveObjectLocal(objs, data, immediate) ==
    [i \in 1..Len(objs) |->
        IF objs[i].id = IdOf(data)
        THEN [objs[i] EXCEPT
                !.localPosition =
                    TweenSet(@, PositionOf(data),
                             IF immediate THEN 0 ELSE TweenDuration),
                !.remotePosition = PositionOf(data)]
        ELSE objs[i]]

\* removeObjectLocal dropping only the first entry of the id.
removeObjectLocalFirst(objs, data) ==
    LET hits == {i \in 1..Len(objs) : objs[i].id = IdOf(data)} IN
    IF hits = {} THEN objs
    ELSE LET first == CHOOSE i \in hits : \A j \in hits : i <= j IN
         [i \in 1..(Len(objs) - 1) |->
            IF i < first THEN objs[i] ELSE objs[i + 1]]

\* removeObjectLocal with the filter's test inverted.
removeObjectLocalInverted(objs, data) ==
    SelectSeq(objs, LAMBDA object : object.id = IdOf(data))

removeObjectLocal(objs, data) ==
    SelectSeq(objs, LAMBDA object : object.id # IdOf(data))

\* clearObjectsLocal leaving the store as it was.
clearObjectsLocalKeeps(objs) == objs

clearObjectsLocal(objs) == <<>>

\* handleObjects keeping the entries the store held.
handleObjectsAppends(objs, msg) ==
    objs \o [i \in 1..Len(msg.objects) |->
        [id |-> msg.objects[i].id,
         localPosition |-> tweened(msg.objects[i].object.position),
         object |-> msg.objects[i].object.object,
         remotePosition |-> msg.objects[i].object.position]]

handleObjects(objs, msg) ==
    [i \in 1..Len(msg.objects) |->
        [id |-> msg.objects[i].id,
         localPosition |-> tweened(msg.objects[i].object.position),
         object |-> msg.objects[i].object.object,
         remotePosition |-> msg.objects[i].object.position]]

\* handleActionReport without the RemoveObject case.
handleActionReportSkipsRemove(objs, msg) ==
    CASE msg.action.type = "CreateObject" ->
            createObjectLocal(objs, IdOf(msg.action), ObjectOf(msg.action),
                              InitialPositionOf(msg.action))
      [] msg.action.type = "MoveObject" ->
            moveObjectLocal(objs, msg.action, FALSE)
      [] msg.action.type = "ClearObjects" -> clearObjectsLocal(objs)
      [] OTHER -> objs

handleActionReport(objs, msg) ==
    CASE msg.action.type = "CreateObject" ->
            createObjectLocal(objs, IdOf(msg.action), ObjectOf(msg.action),
                              InitialPositionOf(msg.action))
      [] msg.action.type = "MoveObject" ->
            moveObjectLocal(objs, msg.action, FALSE)
      [] msg.action.type = "RemoveObject" ->
            removeObjectLocal(objs, msg.action)
      [] msg.action.type = "ClearObjects" -> clearObjectsLocal(objs)
      [] OTHER -> objs

\* --------------------------------------------------------------- session
\* WebSocket.send(data) by readyState: what reaches the wire, what is thrown.
WebSocketSend(rs, msg) ==
    CASE rs = "CONNECTING" -> [sent |-> <<>>, error |-> "InvalidStateError"]
      [] rs = "OPEN" -> [sent |-> <<msg>>, error |-> "none"]
      [] OTHER -> [sent |-> <<>>, error |-> "none"]

\* sendSocketMessage without the null test: null.send(data) is a TypeError.
sendSocketMessageNoNullTest(store, rs, msg) ==
    IF store = "null"
    THEN [sent |-> <<>>, error |-> "TypeError"]
    ELSE WebSocketSend(rs, msg)

sendSocketMessage(store, rs, msg) ==
    IF store = "null"
    THEN [sent |-> <<>>, error |-> "none"]
    ELSE WebSocketSend(rs, msg)

sendAuthenticate(store, rs, username, password) ==
    sendSocketMessage(store, rs, AuthenticateMessage(username, password))

sendServerAction(store, rs, action) ==
    sendSocketMessage(store, rs, ServerActionMessage(action))

handleAuthenticated(store, rs, msg) ==
    sendSocketMessage(store, rs, RequestObjectsMessage)

\* handleServerError emptying the store.
handleServerErrorClears(objs, msg) == <<>>

\* handleServerError: the message is logged.
handleServerError(objs, msg) == objs

\* MessageEvent values: a Blob, a string JSON.parse rejects, a string it parses.
BlobEvent == [data |-> "blob"]
BadJsonEvent == [data |-> "string", json |-> FALSE]
TextEvent(parsed) == [data |-> "string", json |-> TRUE, parsed |-> parsed]

\* A property read of undefined inside a handler: the TypeError the try block
\* of handleSocketMessage catches.
ThrowsTypeError(parsed) ==
    \/ parsed.type = "ServerActionReported" /\ "action" \notin DOMAIN parsed
    \/ parsed.type = "Objects" /\ "objects" \notin DOMAIN parsed

\* The outcome of handleSocketMessage: the store, what was transmitted, the error.
handleSocketMessage(objs, store, rs, ev) ==
    IF ev.data # "string"
    THEN [objects |-> objs, sent |-> <<>>, error |-> "none"]
    ELSE IF ~ev.json
    THEN [objects |-> objs, sent |-> <<>>, error |-> "caught"]
    ELSE LET parsed == ev.parsed IN
         CASE ThrowsTypeError(parsed) ->
                [objects |-> objs, sent |-> <<>>, error |-> "caught"]
           [] parsed.type = "Authenticated" ->
                LET r == handleAuthenticated(store, rs, parsed) IN
                [objects |-> objs, sent |-> r.sent, error |-> r.error]
           [] parsed.type = "Error" ->
                [objects |-> handleServerError(objs, parsed),
                 sent |-> <<>>, error |-> "none"]
           [] parsed.type = "ServerActionReported"
              /\ ~ThrowsTypeError(parsed) ->
                [objects |-> handleActionReport(objs, parsed),
                 sent |-> <<>>, error |-> "none"]
           [] parsed.type = "Objects" /\ ~ThrowsTypeError(parsed) ->
                [objects |-> handleObjects(objs, parsed),
                 sent |-> <<>>, error |-> "none"]
           [] OTHER -> [objects |-> objs, sent |-> <<>>, error |-> "none"]

FirstSent(r) ==
    IF firstSent = "none" /\ r.sent # <<>> THEN r.sent[1].type ELSE firstSent

Echoes(r) ==
    IF r.sent # <<>> /\ r.sent[1].type = "ServerAction"
    THEN Append(echoQ, r.sent[1].action)
    ELSE echoQ

\* ------------------------------------------------------------- wire format
\* JavaScript numbers and null as they cross JSON: a finite number [n |-> k],
\* NaN, Infinity, null.
NaN == [nan |-> TRUE]
Infinity == [inf |-> TRUE]
JsNull == [null |-> TRUE]
JsNumber == {[n |-> 0], [n |-> 12], [n |-> -5], NaN, Infinity}

\* The decimal digits of a natural number, and the number they spell.
RECURSIVE Digits(_)
Digits(k) == IF k < 10 THEN <<k>> ELSE Append(Digits(k \div 10), k % 10)

RECURSIVE FromDigits(_)
FromDigits(ds) ==
    IF Len(ds) = 1 THEN ds[1]
    ELSE 10 * FromDigits(SubSeq(ds, 1, Len(ds) - 1)) + ds[Len(ds)]

\* JSON text as its tokens: punctuation, string, number and null literals.
Punct(c) == [p |-> c]
IsPunct(tok, c) == "p" \in DOMAIN tok /\ tok.p = c

\* JSON.stringify of a number: a number that is not finite is written null.
stringifyNumber(x) ==
    IF "n" \in DOMAIN x
    THEN <<[num |-> Digits(IF x.n < 0 THEN -x.n ELSE x.n), neg |-> x.n < 0]>>
    ELSE <<[lit |-> "null"]>>

stringifyString(str) == <<[str |-> str]>>

\* JSON.stringify of an object with the given <<key, text>> members, and of
\* an array with the given element texts.
RECURSIVE JoinMembers(_)
JoinMembers(members) ==
    IF members = <<>> THEN <<>>
    ELSE <<[str |-> members[1][1]], Punct(":")>> \o members[1][2]
         \o (IF Len(members) = 1 THEN <<>> ELSE <<Punct(",")>>)
         \o JoinMembers(Tail(members))

stringifyMembers(members) ==
    <<Punct("{")>> \o JoinMembers(members) \o <<Punct("}")>>

RECURSIVE JoinElements(_)
JoinElements(elements) ==
    IF elements = <<>> THEN <<>>
    ELSE elements[1] \o (IF Len(elements) = 1 THEN <<>> ELSE <<Punct(",")>>)
         \o JoinElements(Tail(elements))

stringifyElements(elements) ==
    <<Punct("[")>> \o JoinElements(elements) \o <<Punct("]")>>

stringifyPosition(position) ==
    stringifyMembers(<< <<"x", stringifyNumber(position.x)>>,
                        <<"y", stringifyNumber(position.y)>> >>)

stringifyObject(object) ==
    IF object.type = "Text"
    THEN stringifyMembers(<< <<"type", stringifyString(object.type)>>,
                             <<"text", stringifyString(object.text)>> >>)
    ELSE stringifyMembers(<< <<"type", stringifyString(object.type)>>,
                             <<"url", stringifyString(object.url)>>,
                             <<"width", stringifyNumber(object.width)>>,
                             <<"height", stringifyNumber(object.height)>> >>)

stringifyAction(action) ==
    CASE action.type = "CreateObject" ->
            stringifyMembers(<<
                <<"type", stringifyString(action.type)>>,
                <<"id", stringifyString(action.id)>>,
                <<"object", stringifyObject(action.object)>>,
                <<"initial_position",
                  stringifyPosition(action.initial_position)>> >>)
      [] action.type = "MoveObject" ->
            stringifyMembers(<<
                <<"type", stringifyString(action.type)>>,
                <<"id", stringifyString(action.id)>>,
                <<"position", stringifyPosition(action.position)>> >>)
      [] action.type = "RemoveObject" ->
            stringifyMembers(<<
                <<"type", stringifyString(action.type)>>,
                <<"id", stringifyString(action.id)>> >>)
      [] OTHER -> stringifyMembers(<< <<"type", stringifyString(action.type)>> >>)

stringifyDefinedObjectWithId(d) ==
    stringifyMembers(<<
        <<"id", stringifyString(d.id)>>,
        <<"object", stringifyMembers(<<
            <<"position", stringifyPosition(d.object.position)>>,
            <<"object", stringifyObject(d.object.object)>> >>)>> >>)

\* JSON.stringify(msg) of a ClientMessage or a ServerMessage.
JSONstringify(msg) ==
    CASE msg.type = "Authenticate" ->
            stringifyMembers(<<
                <<"type", stringifyString(msg.type)>>,
                <<"username", stringifyString(msg.username)>>,
                <<"password", stringifyString(msg.password)>> >>)
      [] msg.type \in {"ServerAction", "ServerActionReported"} ->
            stringifyMembers(<<
                <<"type", stringifyString(msg.type)>>,
                <<"action", stringifyAction(msg.action)>> >>)
      [] msg.type = "Error" ->
            stringifyMembers(<<
                <<"type", stringifyString(msg.type)>>,
                <<"message", stringifyString(msg.message)>> >>)
      [] msg.type = "Objects" ->
            stringifyMembers(<<
                <<"type", stringifyString(msg.type)>>,
                <<"objects", stringifyElements(
                    [i \in 1..Len(msg.objects) |->
                        stringifyDefinedObjectWithId(msg.objects[i])])>> >>)
      [] OTHER -> stringifyMembers(<< <<"type", stringifyString(msg.type)>> >>)

\* JSON.parse: the value a token sequence spells, from position i on, and the
\* position after it. Objects come back as functions of their keys.
RECURSIVE parseValue(_, _)
RECURSIVE parseMembers(_, _, _)
RECURSIVE parseElements(_, _, _)

parseValue(toks, i) ==
    CASE "str" \in DOMAIN toks[i] -> [v |-> toks[i].str, next |-> i + 1]
      [] "num" \in DOMAIN toks[i] ->
            [v |-> [n |-> IF toks[i].neg THEN -FromDigits(toks[i].num)
                          ELSE FromDigits(toks[i].num)],
             next |-> i + 1]
      [] "lit" \in DOMAIN toks[i] -> [v |-> JsNull, next |-> i + 1]
      [] IsPunct(toks[i], "{") -> parseMembers(toks, i + 1, <<>>)
      [] IsPunct(toks[i], "[") -> parseElements(toks, i + 1, <<>>)

parseMembers(toks, i, acc) ==
    IF IsPunct(toks[i], "}") THEN [v |-> acc, next |-> i + 1]
    ELSE LET r == parseValue(toks, i + 2)
             members == (toks[i].str :> r.v) @@ acc
         IN IF IsPunct(toks[r.next], ",")
            THEN parseMembers(toks, r.next + 1, members)
            ELSE [v |-> members, next |-> r.next + 1]

parseElements(toks, i, acc) ==
    IF IsPunct(toks[i], "]") THEN [v |-> acc, next |-> i + 1]
    ELSE LET r == parseValue(toks, i)
             elements == Append(acc, r.v)
         IN IF IsPunct(toks[r.next], ",")
            THEN parseElements(toks, r.next + 1, elements)
            ELSE [v |-> elements, next |-> r.next + 1]

JSONparse(data) == parseValue(data, 1).v

\* The messages the round trip is explored with.
WirePosition == {[x |-> x, y |-> y] : x, y \in JsNumber}
WireObject ==
    {[type |-> "Text", text |-> "hi"]}
    \cup {[type |-> "Image", url |-> "u", width |-> w, height |-> [n |-> 12]] :
            w \in JsNumber}
WireAction ==
    {CreateObjectAction(id, o, p) : id \in Uuid, o \in WireObject,
                                    p \in WirePosition}
    \cup {MoveObjectAction(id, p) : id \in Uuid, p \in WirePosition}
    \cup {RemoveObjectAction(id) : id \in Uuid}
    \cup {ClearObjectsAction}
WireDefinedObjectWithId ==
    {[id |-> id, object |-> [position |-> [x |-> x, y |-> [n |-> 0]],
                             object |-> [type |-> "Text", text |-> "hi"]]] :
        id \in Uuid, x \in JsNumber}
WireClientMessage ==
    {AuthenticateMessage("", ""), RequestObjectsMessage}
    \cup {ServerActionMessage(action) : action \in WireAction}
WireServerMessage ==
    {[type |-> "Authenticated"], [type |-> "Error", message |-> "denied"]}
    \cup {[type |-> "ServerActionReported", action |-> action] :
            action \in WireAction}
    \cup {[type |-> "Objects", objects |-> objs] :
            objs \in {<<>>} \cup {<<d>> : d \in WireDefinedObjectWithId}
                     \cup {<<d, e>> : d, e \in WireDefinedObjectWithId}}

\* A message on its way: the value, then its text, then the value read back.
Wire(stage, value, text, parsed) ==
    [stage |-> stage, value |-> value, text |-> text, parsed |-> parsed]

\* ------------------------------------------------- PositionedObject.svelte
\* lodash throttle(func, ThrottleWait): a debounce with leading and trailing
\* edges and maxWait = wait. Times are clock readings; timerAt is the time
\* the pending setTimeout is due.
UndefinedTime == -1
NoArgs == [defined |-> FALSE, immediate |-> FALSE]
Args(immediate) == [defined |-> TRUE, immediate |-> immediate]

Throttle ==
    [lastArgs |-> NoArgs, lastCallTime |-> UndefinedTime, lastInvokeTime |-> 0,
     timerAt |-> UndefinedTime]

Ran(t, fired) == [t |-> t, fired |-> fired]

shouldInvoke(t, time) ==
    \/ t.lastCallTime = UndefinedTime
    \/ time - t.lastCallTime >= ThrottleWait
    \/ time - t.lastCallTime < 0
    \/ time - t.lastInvokeTime >= ThrottleWait

Min(m, n) == IF m <= n THEN m ELSE n

remainingWait(t, time) ==
    Min(ThrottleWait - (time - t.lastCallTime),
        ThrottleWait - (time - t.lastInvokeTime))

invokeFunc(t, time) ==
    Ran([t EXCEPT !.lastArgs = NoArgs, !.lastInvokeTime = time], t.lastArgs)

leadingEdge(t, time) ==
    invokeFunc([t EXCEPT !.timerAt = time + ThrottleWait], time)

trailingEdge(t, time) ==
    IF t.lastArgs.defined
    THEN invokeFunc([t EXCEPT !.timerAt = UndefinedTime], time)
    ELSE Ran([t EXCEPT !.timerAt = UndefinedTime, !.lastArgs = NoArgs], NoArgs)

timerExpired(t, time) ==
    IF shouldInvoke(t, time)
    THEN trailingEdge(t, time)
    ELSE Ran([t EXCEPT !.timerAt = time + remainingWait(t, time)], NoArgs)

\* moveObjectThrottled(...args): the throttled function is called.
moveObjectThrottled(t, args, time) ==
    LET called == [t EXCEPT !.lastArgs = args, !.lastCallTime = time] IN
    IF shouldInvoke(t, time)
    THEN IF t.timerAt = UndefinedTime
         THEN leadingEdge(called, time)
         ELSE invokeFunc([called EXCEPT !.timerAt = time + ThrottleWait], time)
    ELSE IF t.timerAt = UndefinedTime
         THEN Ran([called EXCEPT !.timerAt = time + ThrottleWait], NoArgs)
         ELSE Ran(called, NoArgs)

\* moveObjectThrottled.cancel()
moveObjectThrottledCancel(t) == Throttle

\* The component of the entry with the given id, as constructed; fired tells
\* whether the last handler invoked the throttled function, pointer is the
\* last MouseEvent a handler of the component was given.
PositionedObject(id) ==
    [id |-> id, isDragging |-> FALSE, offsetX |-> 0, offsetY |-> 0,
     dragX |-> 0, dragY |-> 0, throttle |-> Throttle, now |-> ThrottleWait,
     fired |-> FALSE, pointer |-> [clientX |-> 0, clientY |-> 0]]

MouseEvent == {[clientX |-> 2, clientY |-> 3], [clientX |-> 7, clientY |-> 8]}

\* ------------------------------------------------------------------ relay
\* The relay: the position of each object it holds (placed), the ids of the
\* actions it has ever accepted (known), the frames in flight to this client
\* (down), whether it has answered Authenticate (authed), whether a
\* RequestObjects waits for its snapshot (requested), and whether the client
\* has handled a snapshot (synced).
NoPlaced == [id \in {} |-> [x |-> 0, y |-> 0]]

Relay ==
    [placed |-> NoPlaced, known |-> {}, down |-> <<>>, authed |-> FALSE,
     requested |-> FALSE, synced |-> FALSE]

\* The relay applies an accepted action to what it holds.
RelayApply(placed, action) ==
    CASE action.type = "CreateObject" ->
            [id \in DOMAIN placed \cup {action.id} |->
                IF id = action.id THEN action.initial_position ELSE placed[id]]
      [] action.type = "MoveObject" ->
            [id \in DOMAIN placed |->
                IF id = action.id THEN action.position ELSE placed[id]]
      [] action.type = "RemoveObject" ->
            [id \in DOMAIN placed \ {action.id} |-> placed[id]]
      [] OTHER -> NoPlaced

\* The relay accepts an action: it applies it and broadcasts it.
RelayAccept(r, action) ==
    [r EXCEPT !.placed = RelayApply(@, action),
              !.known = IF "id" \in DOMAIN action
                        THEN @ \cup {action.id} ELSE @,
              !.down = Append(@, [type |-> "ServerActionReported",
                                  action |-> action])]

\* The Objects frames that show what the relay holds, in any order.
RelaySnapshots(placed) ==
    {snapshot \in Snapshots :
        /\ Len(snapshot) = Cardinality(DOMAIN placed)
        /\ \A i \in 1..Len(snapshot) :
            /\ snapshot[i].id \in DOMAIN placed
            /\ snapshot[i].object.position = placed[snapshot[i].id]}

\* ---------------------------------------------------------------- actions
Init ==
    /\ objects = <<>>
    /\ socketStore = "null"
    /\ readyState = "NONE"
    /\ pc = "boot"
    /\ pending = NoArg
    /\ lastOp = Op("init", NoArg, <<>>, "none")
    /\ firstSent = "none"
    /\ attempts = 0
    /\ echoQ = <<>>
    /\ drag = PositionedObject("a")
    /\ wire = Wire("none", NoArg, <<>>, NoArg)
    /\ relay = Relay

\* Module top level: try { socketStore = createWebsocket() } catch { ... }.
ModuleInit ==
    /\ pc = "boot"
    /\ \E constructed \in BOOLEAN :
        /\ socketStore' = IF constructed THEN "socket" ELSE "null"
        /\ readyState' = IF constructed THEN "CONNECTING" ELSE "NONE"
        /\ lastOp' = Op("createWebsocket", NoArg, <<>>,
                        IF constructed THEN "none" ELSE "caught")
    /\ attempts' = attempts + 1
    /\ pc' = "idle"
    /\ UNCHANGED <<objects, pending, firstSent, echoQ>>
    /\ UNCHANGED extVars

\* socket.onopen that sends nothing.
OnOpenSilent ==
    /\ pc = "idle"
    /\ readyState = "CONNECTING"
    /\ readyState' = "OPEN"
    /\ lastOp' = Op("onopen", NoArg, <<>>, "none")
    /\ UNCHANGED <<objects, socketStore, pc, pending, firstSent, attempts,
                   echoQ>>
    /\ UNCHANGED extVars

\* socket.onopen: the connection is established, Authenticate is sent.
OnOpen ==
    /\ pc = "idle"
    /\ readyState = "CONNECTING"
    /\ readyState' = "OPEN"
    /\ LET r == sendAuthenticate(socketStore, "OPEN", "", "") IN
        /\ lastOp' = Op("onopen", NoArg, r.sent, r.error)
        /\ firstSent' = FirstSent(r)
        /\ echoQ' = Echoes(r)
    /\ UNCHANGED <<objects, socketStore, pc, pending, attempts>>
    /\ UNCHANGED extVars

\* The relay starts the closing handshake: no handler runs.
ConnectionClosing ==
    /\ pc = "idle"
    /\ readyState = "OPEN"
    /\ readyState' = "CLOSING"
    /\ lastOp' = Op("closing", NoArg, <<>>, "none")
    /\ echoQ' = <<>>
    /\ UNCHANGED <<objects, socketStore, pc, pending, firstSent, attempts>>
    /\ UNCHANGED extVars

\* socket.onclose that builds a new socket.
OnCloseReconnects ==
    /\ pc = "idle"
    /\ readyState \in {"CONNECTING", "OPEN", "CLOSING"}
    /\ readyState' = "CONNECTING"
    /\ socketStore' = "socket"
    /\ attempts' = attempts + 1
    /\ lastOp' = Op("onclose", NoArg, <<>>, "none")
    /\ echoQ' = <<>>
    /\ UNCHANGED <<objects, pc, pending, firstSent>>
    /\ UNCHANGED extVars

\* socket.onclose: the connection failed or ended.
OnClose ==
    /\ pc = "idle"
    /\ readyState \in {"CONNECTING", "OPEN", "CLOSING"}
    /\ readyState' = "CLOSED"
    /\ socketStore' = "null"
    /\ lastOp' = Op("onclose", NoArg, <<>>, "none")
    /\ echoQ' = <<>>
    /\ UNCHANGED <<objects, pc, pending, firstSent, attempts>>
    /\ UNCHANGED extVars

\* A running transition of one entry's tweened position reaches its end.
TweenTick(i) ==
    /\ pc = "idle"
    /\ i \in 1..Len(objects)
    /\ TweenFinish(objects[i].localPosition) # objects[i].localPosition
    /\ objects' = [objects EXCEPT ![i].localPosition = TweenFinish(@)]
    /\ lastOp' = Op("tick", NoArg, <<>>, "none")
    /\ UNCHANGED <<socketStore, readyState, pc, pending, firstSent, attempts,
                   echoQ>>
    /\ UNCHANGED extVars

\* An intent that sends its action before it updates the store.
IntentSendsFirst(op, action, objs) ==
    /\ pc = "idle"
    /\ Len(echoQ) < MaxEcho
    /\ LET r == sendServerAction(socketStore, readyState, action) IN
        /\ lastOp' = Op(op, action, r.sent, r.error)
        /\ firstSent' = FirstSent(r)
        /\ echoQ' = Echoes(r)
    /\ objects' = objs
    /\ UNCHANGED <<socketStore, readyState, pc, pending, attempts>>

\* First half of an intent: the store is updated, the action is left to send.
Intent(op, action, objs) ==
    /\ pc = "idle"
    /\ Len(echoQ) < MaxEcho
    /\ objects' = objs
    /\ pending' = action
    /\ pc' = "send"
    /\ lastOp' = Op(op, action, <<>>, "none")
    /\ UNCHANGED <<socketStore, readyState, firstSent, attempts, echoQ>>

\* Ids randomUUID() can return: none the store or a pending rebroadcast holds.
FreshIds ==
    Uuid \ (idsOf(objects) \cup {IdOf(echoQ[i]) : i \in 1..Len(echoQ)})

createObject(object, initial_position) ==
    /\ Len(objects) < MaxObjects
    /\ \E id \in FreshIds :
        /\ ObjectFor(id) = object
        /\ Intent("createObject",
                  CreateObjectAction(id, object, initial_position),
                  createObjectLocal(objects, id, object, initial_position))
    /\ UNCHANGED extVars

moveObject(data, immediate) ==
    Intent(IF immediate THEN "moveObjectImmediate" ELSE "moveObject",
           MoveObjectAction(data.id, data.position),
           moveObjectLocal(objects, data, immediate))

removeObject(data) ==
    /\ Intent("removeObject", RemoveObjectAction(data.id),
              removeObjectLocal(objects, data))
    /\ UNCHANGED extVars

clearObjects ==
    /\ Intent("clearObjects", ClearObjectsAction, clearObjectsLocal(objects))
    /\ UNCHANGED extVars

\* Second half of an intent: sendServerAction(action).
SendPending ==
    /\ pc = "send"
    /\ LET r == sendServerAction(socketStore, readyState, pending) IN
        /\ lastOp' = [lastOp EXCEPT !.sent = r.sent, !.error = r.error]
        /\ firstSent' = FirstSent(r)
        /\ echoQ' = Echoes(r)
    /\ pc' = "idle"
    /\ pending' = NoArg
    /\ UNCHANGED <<objects, socketStore, readyState, attempts>>
    /\ UNCHANGED extVars

\* socket.onmessage: one frame is handled.
Receive(op, ev) ==
    /\ pc = "idle"
    /\ readyState = "OPEN"
    /\ LET r == handleSocketMessage(objects, socketStore, readyState, ev) IN
        /\ Len(r.objects) <= MaxObjects
        /\ objects' = r.objects
        /\ lastOp' = Op(op, ev, r.sent, r.error)
        /\ firstSent' = FirstSent(r)
    /\ UNCHANGED <<socketStore, readyState, pc, pending, attempts>>

ReportEvent(action) ==
    TextEvent([type |-> "ServerActionReported", action |-> action])

\* The relay rebroadcasts the oldest own action still in flight.
RecvEcho ==
    /\ echoQ # <<>>
    /\ Receive(IF /\ lastOp.op \in IntentOps
                   /\ lastOp.sent = <<ServerActionMessage(Head(echoQ))>>
                THEN "echoNext" ELSE "echo",
               ReportEvent(Head(echoQ)))
    /\ echoQ' = Tail(echoQ)
    /\ UNCHANGED extVars

\* The relay broadcasts another participant's action; its creates carry ids
\* of that participant's own making.
RecvReport(action) ==
    /\ action.type = "CreateObject" => action.id \in FreshIds
    /\ Receive("report", ReportEvent(action))
    /\ UNCHANGED <<echoQ, extVars>>

RecvObjects(snapshot) ==
    /\ Receive("objects", TextEvent([type |-> "Objects", objects |-> snapshot]))
    /\ UNCHANGED <<echoQ, extVars>>

RecvAuthenticated ==
    /\ Receive("authenticated", TextEvent([type |-> "Authenticated"]))
    /\ UNCHANGED <<echoQ, extVars>>

RecvError ==
    /\ Receive("error", TextEvent([type |-> "Error", message |-> "denied"]))
    /\ UNCHANGED <<echoQ, extVars>>

RecvUnknownType ==
    /\ Receive("unknown", TextEvent([type |-> "Ping"]))
    /\ UNCHANGED <<echoQ, extVars>>

RecvBlob ==
    /\ Receive("blob", BlobEvent)
    /\ UNCHANGED <<echoQ, extVars>>

RecvBadJson ==
    /\ Receive("badjson", BadJsonEvent)
    /\ UNCHANGED <<echoQ, extVars>>

\* Frames that parse but do not fit the envelope schema.
SchemaInvalid ==
    { [type |-> "ServerActionReported"],
      [type |-> "Objects"],
      [type |-> "ServerActionReported", action |-> [type |-> "CreateObject"]],
      [type |-> "ServerActionReported", action |-> [type |-> "MoveObject"]] }
    \cup {[type |-> "ServerActionReported",
           action |-> [type |-> "MoveObject", id |-> id]] : id \in Uuid}

RecvSchemaInvalid(parsed) ==
    /\ Receive("invalid", TextEvent(parsed))
    /\ UNCHANGED <<echoQ, extVars>>

\* ------------------------------------------------------ component actions
\* $localPosition of the component's entry: the value its tween now shows.
LocalPosition(objs, id) ==
    LET i == CHOOSE k \in 1..Len(objs) :
                /\ objs[k].id = id
                /\ \A j \in 1..(k - 1) : objs[j].id # id
    IN objs[i].localPosition.value

DragPosition(d) == [x |-> d.dragX, y |-> d.dragY]

\* Where the pointer has taken the entry: the pointer less the grab offset.
PointerPosition(d) ==
    [x |-> d.pointer.clientX - d.offsetX, y |-> d.pointer.clientY - d.offsetY]

\* const { x, y } = $derived(...): where the component draws its entry.
Displayed(objs, d) ==
    IF d.isDragging THEN DragPosition(d) ELSE LocalPosition(objs, d.id)

\* A handler of the component, d its state after its own assignments, r what
\* the throttle did: the throttled function, when invoked, calls moveObject
\* with the dragX and dragY of that moment.
Throttled(op, d, r) ==
    /\ drag' = [d EXCEPT !.throttle = r.t, !.fired = r.fired.defined]
    /\ IF r.fired.defined
       THEN moveObject([id |-> d.id, position |-> DragPosition(d)],
                       r.fired.immediate)
       ELSE /\ pc = "idle"
            /\ lastOp' = Op(op, NoArg, <<>>, "none")
            /\ UNCHANGED <<objects, socketStore, readyState, pc, pending,
                           firstSent, attempts, echoQ>>
    /\ UNCHANGED <<wire, relay>>

startDrag(event) ==
    /\ pc = "idle"
    /\ drag.id \in idsOf(objects)
    /\ drag' = [drag EXCEPT
                    !.offsetX = event.clientX - LocalPosition(objects, drag.id).x,
                    !.offsetY = event.clientY - LocalPosition(objects, drag.id).y,
                    !.isDragging = TRUE,
                    !.fired = FALSE,
                    !.pointer = event]
    /\ lastOp' = Op("startDrag", NoArg, <<>>, "none")
    /\ UNCHANGED <<objects, socketStore, readyState, pc, pending, firstSent,
                   attempts, echoQ, wire, relay>>

\* mousemove while the listener is attached; the pointer stays where the
\* dragged position is a Position.
onDrag(event) ==
    /\ drag.isDragging
    /\ LET d == [drag EXCEPT !.dragX = event.clientX - drag.offsetX,
                             !.dragY = event.clientY - drag.offsetY,
                             !.pointer = event]
       IN /\ DragPosition(d) \in Position
          /\ Throttled("onDrag", d,
                       moveObjectThrottled(drag.throttle, Args(FALSE), drag.now))

\* stopDrag calling moveObjectThrottled() without the immediate flag.
stopDragNotImmediate ==
    /\ drag.isDragging
    /\ Throttled("stopDrag", [drag EXCEPT !.isDragging = FALSE],
                 moveObjectThrottled(moveObjectThrottledCancel(drag.throttle),
                                     Args(FALSE), drag.now))

\* mouseup while the listener is attached.
stopDrag ==
    /\ drag.isDragging
    /\ Throttled("stopDrag", [drag EXCEPT !.isDragging = FALSE],
                 moveObjectThrottled(moveObjectThrottledCancel(drag.throttle),
                                     Args(TRUE), drag.now))

\* The throttle's setTimeout callback runs, at or after the time it is due.
ThrottleTimer ==
    /\ drag.throttle.timerAt # UndefinedTime
    /\ drag.now >= drag.throttle.timerAt
    /\ Throttled("timerExpired", drag, timerExpired(drag.throttle, drag.now))

\* Half a throttle window passes.
AdvanceTime ==
    /\ pc = "idle"
    /\ drag.now < ThrottleWait + MaxTicks * (ThrottleWait \div 2)
    /\ drag' = [drag EXCEPT !.now = @ + (ThrottleWait \div 2), !.fired = FALSE]
    /\ lastOp' = Op("time", NoArg, <<>>, "none")
    /\ UNCHANGED <<objects, socketStore, readyState, pc, pending, firstSent,
                   attempts, echoQ, wire, relay>>

\* ----------------------------------------------------------- relay actions
\* The relay answers the Authenticate that opened the connection.
RelayAuthenticated ==
    /\ pc = "idle"
    /\ readyState = "OPEN"
    /\ firstSent = "Authenticate"
    /\ ~relay.authed
    /\ relay.down = <<>>
    /\ relay' = [relay EXCEPT !.authed = TRUE,
                              !.down = Append(@, [type |-> "Authenticated"])]
    /\ lastOp' = Op("relay", NoArg, <<>>, "none")
    /\ UNCHANGED <<objects, socketStore, readyState, pc, pending, firstSent,
                   attempts, echoQ, drag, wire>>

\* The relay accepts the oldest action of this client still on its way.
RelayOwn ==
    /\ pc = "idle"
    /\ relay.authed
    /\ echoQ # <<>>
    /\ relay.down = <<>>
    /\ relay' = RelayAccept(relay, Head(echoQ))
    /\ echoQ' = Tail(echoQ)
    /\ lastOp' = Op("relay", NoArg, <<>>, "none")
    /\ UNCHANGED <<objects, socketStore, readyState, pc, pending, firstSent,
                   attempts, drag, wire>>

\* The relay accepts the action of another participant, who creates under
\* ids of its own making and refers to ids the relay has broadcast; this
\* client gets the broadcast once it is authenticated.
RelayOther(action) ==
    /\ pc = "idle"
    /\ action.type = "CreateObject" =>
            action.id \in FreshIds \ relay.known
    /\ action.type \in {"MoveObject", "RemoveObject"} =>
            action.id \in relay.known
    /\ relay.down = <<>>
    /\ relay' = IF relay.authed THEN RelayAccept(relay, action)
                ELSE [RelayAccept(relay, action) EXCEPT !.down = relay.down]
    /\ lastOp' = Op("relay", NoArg, <<>>, "none")
    /\ UNCHANGED <<objects, socketStore, readyState, pc, pending, firstSent,
                   attempts, echoQ, drag, wire>>

\* The relay answers RequestObjects with what it holds.
RelaySnapshot ==
    /\ pc = "idle"
    /\ relay.requested
    /\ relay.down = <<>>
    /\ \E snapshot \in RelaySnapshots(relay.placed) :
        relay' = [relay EXCEPT
                    !.requested = FALSE,
                    !.down = Append(@, [type |-> "Objects",
                                        objects |-> snapshot])]
    /\ lastOp' = Op("relay", NoArg, <<>>, "none")
    /\ UNCHANGED <<objects, socketStore, readyState, pc, pending, firstSent,
                   attempts, echoQ, drag, wire>>

\* The oldest frame in flight reaches the client.
RelayDeliver ==
    /\ relay.down # <<>>
    /\ Receive("deliver", TextEvent(Head(relay.down)))
    /\ relay' = [relay EXCEPT
                    !.down = Tail(@),
                    !.requested = @ \/ lastOp'.sent = <<RequestObjectsMessage>>,
                    !.synced = @ \/ Head(relay.down).type = "Objects"]
    /\ UNCHANGED <<echoQ, drag, wire>>

Next ==
    \/ ModuleInit
    \/ OnOpen
    \/ ConnectionClosing
    \/ OnClose
    \/ \E i \in 1..MaxObjects : TweenTick(i)
    \/ \E object \in Object, initial_position \in Position :
            createObject(object, initial_position)
    \/ \E id \in Uuid, position \in Position, immediate \in BOOLEAN :
            /\ moveObject([id |-> id, position |-> position], immediate)
            /\ UNCHANGED extVars
    \/ \E id \in Uuid : removeObject([id |-> id])
    \/ clearObjects
    \/ SendPending
    \/ RecvEcho
    \/ \E action \in ObjectServerAction : RecvReport(action)
    \/ \E snapshot \in Snapshots : RecvObjects(snapshot)
    \/ RecvAuthenticated
    \/ RecvError
    \/ RecvUnknownType
    \/ RecvBlob
    \/ RecvBadJson

Spec == Init /\ [][Next]_vars

\* The store operations that place entries (Create, Move, snapshot) with the
\* client's scheduling: a handler that started runs to its end, and the
\* animation loop of a running transition gets its frames.
NextTween ==
    \/ ModuleInit
    \/ OnOpen
    \/ \E i \in 1..MaxObjects : TweenTick(i)
    \/ \E object \in Object, initial_position \in Position :
            createObject(object, initial_position)
    \/ \E id \in Uuid, position \in Position, immediate \in BOOLEAN :
            /\ moveObject([id |-> id, position |-> position], immediate)
            /\ UNCHANGED extVars
    \/ SendPending
    \/ RecvEcho
    \/ \E snapshot \in Snapshots : RecvObjects(snapshot)

SpecTween ==
    /\ Init
    /\ [][NextTween]_vars
    /\ WF_vars(SendPending)
    /\ \A i \in 1..MaxObjects : SF_vars(TweenTick(i))

\* The same client against a relay that also sends schema-invalid frames.
NextMalformed ==
    \/ Next
    \/ \E parsed \in SchemaInvalid : RecvSchemaInvalid(parsed)

SpecMalformed == Init /\ [][NextMalformed]_vars

\* The client with the pointer and the clock acting on one entry's component;
\* the connection stays up, the canvas gets one object of the client's making
\* and the other participants only move objects.
NextDrag ==
    \/ ModuleInit
    \/ OnOpen
    \/ \E i \in 1..MaxObjects : TweenTick(i)
    \/ \E object \in Object, initial_position \in Position :
            objects = <<>> /\ createObject(object, initial_position)
    \/ SendPending
    \/ RecvEcho
    \/ \E id \in Uuid, position \in Position :
            RecvReport(MoveObjectAction(id, position))
    \/ \E event \in MouseEvent : startDrag(event)
    \/ \E event \in MouseEvent : onDrag(event)
    \/ stopDrag
    \/ ThrottleTimer
    \/ AdvanceTime

SpecDrag == Init /\ [][NextDrag]_vars

\* One message of either direction is written by JSON.stringify and read back
\* by JSON.parse; nothing else runs.
InitWire ==
    /\ objects = <<>>
    /\ socketStore = "null"
    /\ readyState = "NONE"
    /\ pc = "boot"
    /\ pending = NoArg
    /\ lastOp = Op("init", NoArg, <<>>, "none")
    /\ firstSent = "none"
    /\ attempts = 0
    /\ echoQ = <<>>
    /\ drag = PositionedObject("a")
    /\ relay = Relay
    /\ \E msg \in WireClientMessage \cup WireServerMessage :
        wire = Wire("value", msg, <<>>, NoArg)

\* const data = JSON.stringify(msg)
WireStringify ==
    /\ wire.stage = "value"
    /\ wire' = [wire EXCEPT !.stage = "text", !.text = JSONstringify(wire.value)]
    /\ UNCHANGED <<objects, socketStore, readyState, pc, pending, lastOp,
                   firstSent, attempts, echoQ, drag, relay>>

\* const parsed = JSON.parse(data)
WireParse ==
    /\ wire.stage = "text"
    /\ wire' = [wire EXCEPT !.stage = "parsed", !.parsed = JSONparse(wire.text)]
    /\ UNCHANGED <<objects, socketStore, readyState, pc, pending, lastOp,
                   firstSent, attempts, echoQ, drag, relay>>

NextWire == WireStringify \/ WireParse

SpecWire == InitWire /\ [][NextWire]_vars

\* The client on one connection that stays up, against the relay and the
\* other participants. The relay puts a frame on the connection
\* once the one before it is delivered: the client sees what the relay has
\* accepted only through deliveries, in the order of acceptance, so a step
\* of the relay taken earlier shows the client nothing else.
NextRelay ==
    \/ ModuleInit
    \/ OnOpen
    \/ \E object \in Object, initial_position \in Position :
            /\ createObject(object, initial_position)
            /\ pending'.id \notin relay.known
            /\ object = ObjectFor(pending'.id)
    \/ \E id \in idsOf(objects), position \in Position :
            /\ moveObject([id |-> id, position |-> position], FALSE)
            /\ UNCHANGED extVars
    \/ \E id \in idsOf(objects) : removeObject([id |-> id])
    \/ clearObjects
    \/ SendPending
    \/ RelayAuthenticated
    \/ RelayOwn
    \/ \E action \in ObjectServerAction : RelayOther(action)
    \/ RelaySnapshot
    \/ RelayDeliver

SpecRelay == Init /\ [][NextRelay]_vars

\* ----------------------------------------------------------------- claims
\* The ObjectServerAction a handler routed to the store, if it did.
AppliedAction(op) ==
    IF op.op \in IntentOps THEN op.arg
    ELSE IF op.op \in EchoOps \cup {"report"} THEN op.arg.parsed.action
    ELSE NoArg

\* The store shows the action as applied.
Reflects(objs, action) ==
    CASE action.type = "CreateObject" ->
            \E i \in 1..Len(objs) :
                /\ objs[i].id = action.id
                /\ objs[i].object = action.object
                /\ objs[i].remotePosition = action.initial_position
      [] action.type = "MoveObject" ->
            \A i \in 1..Len(objs) :
                objs[i].id = action.id =>
                    objs[i].remotePosition = action.position
      [] action.type = "RemoveObject" -> action.id \notin idsOf(objs)
      [] action.type = "ClearObjects" -> objs = <<>>
      [] OTHER -> FALSE

\* C1: a Create applied for an id the store already holds overwrites it: the
\* store then has exactly one entry for the id, carrying the object and the
\* position of that Create.
C1_CreateOverwrites ==
    [][(/\ pc = "idle"
        /\ AppliedAction(lastOp').type = "CreateObject"
        /\ AppliedAction(lastOp').id \in idsOf(objects))
       => (/\ CountId(objects', AppliedAction(lastOp').id) = 1
           /\ Reflects(objects', AppliedAction(lastOp')))]_vars

\* C2: in every reachable state no two entries of canvasState.objects have
\* the same id.
C2_UniqueIds == \A id \in Uuid : CountId(objects, id) <= 1

\* C3: a local moveObject(id, p) on an existing id followed at once by the
\* rebroadcast of that Move leaves the number of entries unchanged and the
\* remote position of the object equal to p.
C3_EchoMoveHarmless ==
    [][(/\ pc = "idle"
        /\ lastOp.op \in {"moveObject", "moveObjectImmediate"}
        /\ lastOp.arg.id \in idsOf(objects)
        /\ lastOp.sent # <<>>
        /\ lastOp'.op = "echoNext"
        /\ AppliedAction(lastOp') = lastOp.arg)
       => (/\ Len(objects') = Len(objects)
           /\ idsOf(objects') = idsOf(objects)
           /\ \A i \in 1..Len(objects') :
                objects'[i].id = lastOp.arg.id =>
                    objects'[i].remotePosition = lastOp.arg.position)]_vars

C3_Witness ==
    /\ lastOp.op = "echoNext"
    /\ AppliedAction(lastOp).type = "MoveObject"
    /\ \E i \in 1..Len(objects) :
        /\ objects[i].id = AppliedAction(lastOp).id
        /\ objects[i].remotePosition = AppliedAction(lastOp).position
        /\ objects[i].remotePosition = [x |-> 5, y |-> 5]

\* C4: a Move or a Remove applied for an id the store does not hold leaves
\* every entry of the store as it was and raises no error.
C4_NoOpOnMissing ==
    [][(/\ pc = "idle"
        /\ AppliedAction(lastOp').type \in {"MoveObject", "RemoveObject"}
        /\ AppliedAction(lastOp').id \notin idsOf(objects))
       => (objects' = objects /\ lastOp'.error = "none")]_vars

C4_Witness ==
    /\ AppliedAction(lastOp).type = "MoveObject"
    /\ objects # <<>>
    /\ AppliedAction(lastOp).id \notin idsOf(objects)

\* C5: once an Objects frame is handled the store holds exactly one entry per
\* element of the snapshot, in its order, each with the element's id and
\* object and with remote and rendered position equal to the element's
\* position, whatever the store held before.
C5_SnapshotAuthority ==
    lastOp.op = "objects" =>
        LET snapshot == lastOp.arg.parsed.objects IN
        /\ Len(objects) = Len(snapshot)
        /\ \A i \in 1..Len(snapshot) :
            /\ objects[i].id = snapshot[i].id
            /\ objects[i].object = snapshot[i].object.object
            /\ objects[i].remotePosition = snapshot[i].object.position
            /\ objects[i].localPosition.value = snapshot[i].object.position

C5_Witness ==
    /\ lastOp.op = "objects"
    /\ Len(lastOp.arg.parsed.objects) = 2
    /\ Len(objects) = 2

\* C6: whenever a ServerAction envelope is handed to the transport, the store
\* already shows the action it carries as applied.
C6_OptimisticFirst ==
    [][(/\ lastOp'.sent # <<>>
        /\ lastOp'.sent[1].type = "ServerAction")
       => (/\ lastOp'.op \in IntentOps
           /\ lastOp'.sent[1].action = lastOp'.arg
           /\ Reflects(objects, lastOp'.arg)
           /\ objects' = objects)]_vars

C6_Witness ==
    /\ lastOp.op = "createObject"
    /\ lastOp.sent = <<ServerActionMessage(lastOp.arg)>>
    /\ Reflects(objects, lastOp.arg)

\* C7: while the session is disconnected every intent still updates the
\* store, its send transmits nothing and raises nothing, and nothing is kept
\* to be sent later.
C7_LocalOnly ==
    [][(socketStore = "null" /\ pc # "boot")
       => (/\ lastOp'.sent = <<>>
           /\ lastOp'.error = "none"
           /\ echoQ' = <<>>
           /\ (pc = "idle" /\ lastOp'.op \in IntentOps)
                => (pc' = "send" /\ Reflects(objects', lastOp'.arg))
           /\ pc = "send" => (pc' = "idle" /\ pending' = NoArg
                              /\ objects' = objects))]_vars

C7_Witness ==
    /\ socketStore = "null"
    /\ readyState = "CLOSED"
    /\ pc = "idle"
    /\ lastOp.op = "createObject"
    /\ Reflects(objects, lastOp.arg)
    /\ lastOp.sent = <<>>

\* C8: a frame that is not text, is not parseable JSON or does not fit the
\* envelope schema leaves the store unchanged.
C8_MalformedDiscarded ==
    [][(pc = "idle" /\ lastOp'.op \in {"blob", "badjson", "invalid"})
       => objects' = objects]_vars

\* C9: on reaching Open the session sends Authenticate, the first envelope
\* transmitted on the connection; RequestObjects is sent only by the handler
\* of Authenticated, after Authenticate was sent.
C9_HandshakeOrder ==
    [][/\ (readyState # "OPEN" /\ readyState' = "OPEN")
            => lastOp'.sent = <<AuthenticateMessage("", "")>>
       /\ firstSent' \in {"none", "Authenticate"}
       /\ (lastOp'.sent # <<>> /\ lastOp'.sent[1].type = "RequestObjects")
            => (lastOp'.op = "authenticated" /\ firstSent = "Authenticate")
      ]_vars

C9_Witness ==
    /\ lastOp.op = "authenticated"
    /\ lastOp.sent = <<RequestObjectsMessage>>
    /\ firstSent = "Authenticate"

\* C10: one connection is attempted, at construction; a failed construction
\* leaves the session disconnected; closure sets socketStore to null; once
\* disconnected the session never connects again and transmits nothing.
C10_Lifecycle ==
    [][/\ pc = "boot" => (attempts' = 1 /\ pc' = "idle")
       /\ pc # "boot" => attempts' = attempts
       /\ (pc = "boot" /\ lastOp'.error = "caught")
            => (socketStore' = "null" /\ readyState' = "NONE")
       /\ (readyState # "CLOSED" /\ readyState' = "CLOSED")
            => socketStore' = "null"
       /\ (socketStore = "null" /\ pc # "boot")
            => (/\ socketStore' = "null"
                /\ readyState' \notin {"CONNECTING", "OPEN"}
                /\ lastOp'.sent = <<>>)
      ]_vars

C10_Witness ==
    /\ socketStore = "null"
    /\ readyState = "CLOSED"
    /\ attempts = 1
    /\ firstSent = "Authenticate"
    /\ lastOp.op \in IntentOps
    /\ pc = "idle"

\* C11: when a drag gesture ends (isDragging falls), the pending throttled
\* Move is cancelled and exactly one Move is dispatched in that same step,
\* carrying the position the gesture's last pointer event gave the entry;
\* while no gesture is active the throttle dispatches no further Move.
C11_DragEndSend ==
    [][/\ (drag.isDragging /\ ~drag'.isDragging) =>
            /\ drag'.fired
            /\ pc' = "send"
            /\ pending' = MoveObjectAction(drag.id, PointerPosition(drag))
            /\ ~drag'.throttle.lastArgs.defined
       /\ (~drag.isDragging /\ ~drag'.isDragging /\ drag' # drag) =>
            ~drag'.fired]_vars

\* C12: a frame of type Error or Authenticated, or of a type the client does
\* not know, leaves canvasState.objects as it was, raises nothing, and leaves
\* the socket and its readyState as they were.
C12_NonActionFrames ==
    [][(/\ pc = "idle"
        /\ lastOp'.op \in {"error", "authenticated", "unknown"})
       => (/\ objects' = objects
           /\ socketStore' = socketStore
           /\ readyState' = readyState
           /\ pc' = "idle"
           /\ lastOp'.error = "none")]_vars

\* An Error frame was handled by a store that holds an entry.
C12_Witness ==
    /\ lastOp.op = "error"
    /\ objects # <<>>
    /\ readyState = "OPEN"

\* C13: in the state a Remove of an id leaves behind (applied by the intent,
\* an echo or a report) no entry has the id and removeObjectLocal of that id
\* changes nothing; the state a Clear leaves behind is empty and
\* clearObjectsLocal changes nothing.
C13_RemoveClearIdempotent ==
    /\ AppliedAction(lastOp).type = "RemoveObject" =>
        /\ AppliedAction(lastOp).id \notin idsOf(objects)
        /\ removeObjectLocal(objects, AppliedAction(lastOp)) = objects
    /\ AppliedAction(lastOp).type = "ClearObjects" =>
        /\ objects = <<>>
        /\ clearObjectsLocal(objects) = objects

\* The echo of an own Remove was applied, a second time, to a store that
\* still holds another entry.
C13_Witness ==
    /\ lastOp.op = "echoNext"
    /\ AppliedAction(lastOp).type = "RemoveObject"
    /\ objects # <<>>

Entries(objs) ==
    [i \in 1..Len(objs) |->
        [id |-> objs[i].id, object |-> objs[i].object,
         remotePosition |-> objs[i].remotePosition]]

\* C15: the step of a local intent for an action leaves the entries (ids,
\* objects, remote positions) that handling ServerActionReported of the same
\* action from the same state would leave; the handling of a report sends
\* nothing, and the intent's second step sends the action when the connection
\* is open.
C15_SingleCodePath ==
    [][/\ (pc = "idle" /\ lastOp'.op \in IntentOps) =>
            Entries(objects') =
                Entries(handleActionReport(objects, ReportEvent(lastOp'.arg).parsed))
       /\ (pc = "idle" /\ lastOp'.op \in EchoOps \cup {"report"}) =>
            lastOp'.sent = <<>>
       /\ (pc = "send" /\ socketStore = "socket" /\ readyState = "OPEN") =>
            lastOp'.sent = <<ServerActionMessage(lastOp.arg)>>]_vars

\* An immediate local Move has been applied and sent: the entry shows the new
\* position at once, where the report path would start a transition.
C15_Witness ==
    /\ pc = "idle"
    /\ lastOp.op = "moveObjectImmediate"
    /\ lastOp.sent # <<>>
    /\ \E i \in 1..Len(objects) :
        /\ objects[i].id = lastOp.arg.id
        /\ objects[i].remotePosition = lastOp.arg.position
        /\ objects[i].localPosition.value = lastOp.arg.position
    /\ \E j \in 1..Len(objects) : objects[j].id # lastOp.arg.id

\* C16: a Move applied (by the intent, an echo or a report) to a store that
\* holds the id sets the remote position of the id's entries to the Move's
\* position and leaves the number and order of the entries, every other entry
\* and the moved entries' id and object as they were; Create "a" at (0,0),
\* Move "a" to (10,20), Clear ends with the empty store.
C16_MoveFrame ==
    [][(/\ pc = "idle"
        /\ AppliedAction(lastOp').type = "MoveObject"
        /\ AppliedAction(lastOp').id \in idsOf(objects))
       => (/\ Len(objects') = Len(objects)
           /\ \A i \in 1..Len(objects) :
                IF objects[i].id = AppliedAction(lastOp').id
                THEN /\ objects'[i].id = objects[i].id
                     /\ objects'[i].object = objects[i].object
                     /\ objects'[i].remotePosition =
                            AppliedAction(lastOp').position
                ELSE objects'[i] = objects[i]
           /\ LET created == createObjectLocal(<<>>, "a", TextObject,
                                               [x |-> 0, y |-> 0])
                  moved == moveObjectLocal(created,
                               MoveObjectAction("a", [x |-> 10, y |-> 20]),
                               FALSE)
              IN /\ Entries(moved) =
                        <<[id |-> "a", object |-> TextObject,
                           remotePosition |-> [x |-> 10, y |-> 20]]>>
                 /\ clearObjectsLocal(moved) = <<>>)]_vars

\* A report moved one of two entries of different ids to a new position.
C16_Witness ==
    /\ lastOp.op = "report"
    /\ AppliedAction(lastOp).type = "MoveObject"
    /\ Len(objects) = 2
    /\ objects[1].id # objects[2].id
    /\ \E i \in 1..2 :
        /\ objects[i].id = AppliedAction(lastOp).id
        /\ objects[i].remotePosition = AppliedAction(lastOp).position
        /\ objects[i].localPosition.value # AppliedAction(lastOp).position
        /\ objects[3 - i].remotePosition # AppliedAction(lastOp).position

\* C17: in every state the target of each entry's tweened position is its
\* remote position, and an entry whose remote position is p comes to show p
\* unless it is moved again or leaves its place in the list.
C17_RenderedConverges ==
    /\ [](\A i \in 1..Len(objects) :
            objects[i].localPosition.target = objects[i].remotePosition)
    /\ \A i \in 1..MaxObjects, p \in Position :
        (i <= Len(objects) /\ objects[i].remotePosition = p)
            ~> (\/ i > Len(objects)
                \/ objects[i].remotePosition # p
                \/ objects[i].localPosition.value = p)

\* A transition started by a Move has run to its end.
C17_Witness ==
    /\ lastOp.op = "tick"
    /\ \E i \in 1..Len(objects) :
        /\ objects[i].localPosition.value = objects[i].remotePosition
        /\ objects[i].remotePosition # [x |-> 0, y |-> 0]

\* C18: while a drag is active the component draws its entry where the
\* pointer has taken it; a report of a Move of the dragged id sets the
\* entry's remote position and leaves the drawn position as it was.
C18_DragIsolation ==
    [][/\ drag'.isDragging =>
            Displayed(objects', drag') = PointerPosition(drag')
       /\ (/\ drag.isDragging
           /\ pc = "idle"
           /\ lastOp'.op = "report"
           /\ AppliedAction(lastOp').id = drag.id)
          => (/\ Displayed(objects', drag') = Displayed(objects, drag)
              /\ Reflects(objects', AppliedAction(lastOp')))]_vars

\* C19: an applied Move with immediate = true makes every entry of the id
\* show the Move's position in that step; with immediate = false the entry
\* keeps showing what it showed and only its target becomes the Move's
\* position; and the step that ends a drag leaves the component drawing its
\* entry where it drew it during the drag.
C19_ImmediateFlag ==
    [][/\ (pc = "idle" /\ AppliedAction(lastOp').type = "MoveObject") =>
            \A i \in 1..Len(objects) :
                objects[i].id = AppliedAction(lastOp').id =>
                    /\ objects'[i].localPosition.target =
                            AppliedAction(lastOp').position
                    /\ objects'[i].localPosition.value =
                            IF lastOp'.op = "moveObjectImmediate"
                            THEN AppliedAction(lastOp').position
                            ELSE objects[i].localPosition.value
       /\ (drag.isDragging /\ ~drag'.isDragging /\ drag.id \in idsOf(objects))
            => Displayed(objects', drag') = Displayed(objects, drag)]_vars

\* A drag has just ended: the entry, which showed another position before
\* the final Move, shows the dragged position with no transition left to run.
C19_Witness ==
    /\ ~drag.isDragging
    /\ drag.fired
    /\ pc = "send"
    /\ lastOp.op = "moveObjectImmediate"
    /\ drag.id \in idsOf(objects)
    /\ Displayed(objects, drag) = DragPosition(drag)
    /\ DragPosition(drag) # [x |-> 0, y |-> 0]
    /\ \A i \in 1..Len(objects) :
        objects[i].localPosition.value = objects[i].localPosition.target

\* C20: once the client has handled a snapshot and nothing is on its way in
\* either direction (no own action, no request, no frame) and no handler
\* runs, the client has an entry of an id exactly when the relay holds the
\* id, and every entry's remote position is the relay's position of its id.
C20_QuiescentConvergence ==
    (/\ pc = "idle"
     /\ readyState = "OPEN"
     /\ relay.synced
     /\ ~relay.requested
     /\ echoQ = <<>>
     /\ relay.down = <<>>)
    => (/\ idsOf(objects) = DOMAIN relay.placed
        /\ \A i \in 1..Len(objects) :
            objects[i].remotePosition = relay.placed[objects[i].id])

\* Quiescence after own and foreign actions: the client holds an own entry
\* the relay has echoed and an entry another participant created and moved.
C20_Witness ==
    /\ pc = "idle"
    /\ readyState = "OPEN"
    /\ relay.synced
    /\ ~relay.requested
    /\ echoQ = <<>>
    /\ relay.down = <<>>
    /\ lastOp.op = "deliver"
    /\ lastOp.arg.parsed.type = "ServerActionReported"
    /\ lastOp.arg.parsed.action.type = "MoveObject"
    /\ Cardinality(DOMAIN relay.placed) = 2
    /\ Len(objects) = 2

\* C21: in every session state a send either hands the envelope to the
\* transport or drops it: no step that runs sendSocketMessage ends with an
\* error thrown by it, and an envelope is transmitted only while the
\* connection is OPEN.
C21_SendNeverRaises ==
    /\ lastOp.error \notin {"InvalidStateError", "TypeError"}
    /\ lastOp.sent # <<>> => readyState = "OPEN"

\* C22: a drag start followed at once by a drag end, with no pointer move
\* between them, leaves the remote position of every entry of the dragged id
\* as it was before the gesture, and the Move the drag end dispatches
\* carries that position.
C22_StillGesture ==
    [][(/\ lastOp.op = "startDrag"
        /\ drag.isDragging
        /\ ~drag'.isDragging)
       => \A i \in 1..Len(objects) :
            objects[i].id = drag.id =>
                /\ objects'[i].remotePosition = objects[i].remotePosition
                /\ drag'.fired =>
                        pending' = MoveObjectAction(drag.id,
                                                    objects[i].remotePosition)
      ]_vars

====
